---- MODULE Spec2Model ----
(***************************************************************************)
(* A model of the wego word2vec front end:                                 *)
(*   - builder.Word2vecBuilder  (fluent setters and Build),                *)
(*   - corpus.Word2vecCorpus    (NewWord2vecCorpus and HuffmanTree),       *)
(*   - the word2vec trainer that Build constructs.                         *)
(* The builder and the corpus wrapper are translated from their Go source. *)
(* The packages they call into (corpus core, corpus/node, model/word2vec)  *)
(* are modelled from the design document and are marked as such where they *)
(* are defined.                                                            *)
(***************************************************************************)
EXTENDS Integers, Sequences, FiniteSets, TLC

VARIABLES
    \* ---- builder.Word2vecBuilder ----
    wb,         \* the builder's fields
    ctor,       \* the fields as the constructor returned them
    calls,      \* the calls made on the builder so far, oldest first
    ret,        \* what the last Build returned: [model, err]
    handed,     \* the arguments of the last call of word2vec.NewWord2vec
    openFiles,  \* input files opened by Build, not closed, owned by no model
    \* ---- corpus.Word2vecCorpus ----
    cpc,        \* where the corpus run stands: "new", "corpus", "tree", "failed"
    inText,     \* NewWord2vecCorpus's f: the words the scanner yields, in order
    inToLower,  \* NewWord2vecCorpus's toLower
    inMinCount, \* NewWord2vecCorpus's minCount
    wc,         \* the *Word2vecCorpus returned (Nil when none)
    wcErr,      \* the error returned by NewWord2vecCorpus
    nm,         \* the map returned by HuffmanTree: word id -> node (Nil when none)
    heap,       \* the node.Node objects allocated by HuffmanTree, by address
    hErr,       \* the error returned by HuffmanTree
    \* ---- the word2vec trainer ----
    tpc,        \* the train operation: "ready", "training", "returned"
    tcfg,       \* its configuration: threadSize, iteration, batchSize, docSize, theta
    wk,         \* per worker: pc, epoch, pos
    processed,  \* the shared counter of processed examples
    lr,         \* the shared learning rate, in units of initlr / LrUnit
    raced,      \* two workers have updated the weight matrices at the same time
    embedding   \* the embedding table train returned (Nil before)

builderVars == <<wb, ctor, calls, ret, handed, openFiles>>

corpusVars == <<cpc, inText, inToLower, inMinCount, wc, wcErr, nm, heap, hErr>>

trainVars == <<tpc, tcfg, wk, processed, lr, raced, embedding>>

vars == <<wb, ctor, calls, ret, handed, openFiles,
          cpc, inText, inToLower, inMinCount, wc, wcErr, nm, heap, hErr,
          tpc, tcfg, wk, processed, lr, raced, embedding>>

(***************************************************************************)
(* Bounds of the model.                                                    *)
(***************************************************************************)
MaxCalls == 3

MaxLen == 5

MaxMinCount == 2

MaxThreads == 2

MaxIteration == 2

MaxDoc == 3

\* theta is a multiple of 1 / ThetaDen.
ThetaDen == 2

\* Go's nil: of a pointer or an interface (Nil) and of an error (NoError).
Nil == [ kind |-> "nil" ]

NoError == "nil"

(***************************************************************************)
(* builder.Word2vecBuilder                                                 *)
(***************************************************************************)

\* Argument values tried for the setters.  "hs"/"ns" and "cbow"/"skip-gram"
\* are the names Build recognises; the third value of each set is not.
IntArgs   == {1}
FloatArgs == {"0.05"}
FileArgs  == {"corpus.txt", "other.txt"}
ModelArgs == {"cbow", "skip-gram", "glove"}
OptimizerArgs == {"hs", "ns", "sgd"}

\* The struct returned by NewWord2vecBuilder: every field is the config
\* package's default for it.  The defaults are named, not valued, in the
\* builder; for model and optimizer the builder's doc comments give the
\* recognised names and the defaults are taken among them.
NewWord2vecBuilder ==
    [ inputFile          |-> "DefaultInputFile",
      dimension          |-> 0,
      iteration          |-> 0,
      minCount           |-> 0,
      threadSize         |-> 0,
      window             |-> 0,
      initlr             |-> "DefaultInitlr",
      toLower            |-> FALSE,
      verbose            |-> FALSE,
      model              |-> "cbow",
      optimizer          |-> "ns",
      batchSize          |-> 0,
      maxDepth           |-> 0,
      negativeSampleSize |-> 0,
      subsampleThreshold |-> "DefaultSubsampleThreshold",
      theta              |-> "DefaultTheta" ]

\* The structs NewWord2vecBuilderFromViper can return: every field is whatever
\* viper holds under the field's key, valid or not.
NewWord2vecBuilderFromViper ==
    { [ NewWord2vecBuilder EXCEPT !.inputFile = f, !.model = m, !.optimizer = o,
                                  !.toLower = b, !.verbose = b,
                                  !.dimension = n, !.batchSize = n ] :
        f \in {"corpus.txt"}, m \in {"skip-gram", "glove"}, o \in {"hs", "sgd"},
        b \in {TRUE}, n \in {2} }

Fields == DOMAIN NewWord2vecBuilder

CanCall == Len(calls) < MaxCalls

\* A setter call: the receiver's field is assigned and the receiver returned.
Called(op, arg) ==
    /\ calls' = Append(calls, [op |-> op, arg |-> arg])
    /\ UNCHANGED <<ctor, ret, handed, openFiles>>
    /\ UNCHANGED <<corpusVars, trainVars>>

InputFile(inputFile) ==
    /\ CanCall
    /\ wb' = [wb EXCEPT !.inputFile = inputFile]
    /\ Called("InputFile", inputFile)

Dimension(dimension) ==
    /\ CanCall
    /\ wb' = [wb EXCEPT !.dimension = dimension]
    /\ Called("Dimension", dimension)

Iteration(iter) ==
    /\ CanCall
    /\ wb' = [wb EXCEPT !.iteration = iter]
    /\ Called("Iteration", iter)

\* MinCount with the assignment of the setter above it left in place.
MinCountSetsIteration(minCount) ==
    /\ CanCall
    /\ wb' = [wb EXCEPT !.iteration = minCount]
    /\ Called("MinCount", minCount)

MinCount(minCount) ==
    /\ CanCall
    /\ wb' = [wb EXCEPT !.minCount = minCount]
    /\ Called("MinCount", minCount)

ThreadSize(threadSize) ==
    /\ CanCall
    /\ wb' = [wb EXCEPT !.threadSize = threadSize]
    /\ Called("ThreadSize", threadSize)

Window(window) ==
    /\ CanCall
    /\ wb' = [wb EXCEPT !.window = window]
    /\ Called("Window", window)

Initlr(initlr) ==
    /\ CanCall
    /\ wb' = [wb EXCEPT !.initlr = initlr]
    /\ Called("Initlr", initlr)

ToLower ==
    /\ CanCall
    /\ wb' = [wb EXCEPT !.toLower = TRUE]
    /\ Called("ToLower", TRUE)

Verbose ==
    /\ CanCall
    /\ wb' = [wb EXCEPT !.verbose = TRUE]
    /\ Called("Verbose", TRUE)

Model(model) ==
    /\ CanCall
    /\ wb' = [wb EXCEPT !.model = model]
    /\ Called("Model", model)

Optimizer(optimizer) ==
    /\ CanCall
    /\ wb' = [wb EXCEPT !.optimizer = optimizer]
    /\ Called("Optimizer", optimizer)

BatchSize(batchSize) ==
    /\ CanCall
    /\ wb' = [wb EXCEPT !.batchSize = batchSize]
    /\ Called("BatchSize", batchSize)

MaxDepth(maxDepth) ==
    /\ CanCall
    /\ wb' = [wb EXCEPT !.maxDepth = maxDepth]
    /\ Called("MaxDepth", maxDepth)

NegativeSampleSize(size) ==
    /\ CanCall
    /\ wb' = [wb EXCEPT !.negativeSampleSize = size]
    /\ Called("NegativeSampleSize", size)

SubSampleThreshold(threshold) ==
    /\ CanCall
    /\ wb' = [wb EXCEPT !.subsampleThreshold = threshold]
    /\ Called("SubSampleThreshold", threshold)

Theta(theta) ==
    /\ CanCall
    /\ wb' = [wb EXCEPT !.theta = theta]
    /\ Called("Theta", theta)

(***************************************************************************)
(* What Build calls.  validate.FileExists and os.Open answer for the file  *)
(* system as it is when Build runs: FileStates are the three answers the   *)
(* pair can give.  The word2vec constructors are not part of the builder:  *)
(* each is modelled as the value it is documented to build.                *)
(***************************************************************************)
FileStates == {"absent", "unopenable", "readable"}

FileExists(st) == st # "absent"

OpenFails(st) == st # "readable"

NewConfig(dimension, iteration, minCount, threadSize, window, initlr, toLower, verbose) ==
    [ dimension |-> dimension, iteration |-> iteration, minCount |-> minCount,
      threadSize |-> threadSize, window |-> window, initlr |-> initlr,
      toLower |-> toLower, verbose |-> verbose ]

NewHierarchicalSoftmax(maxDepth) == [ kind |-> "hs", maxDepth |-> maxDepth ]

NewNegativeSampling(size) == [ kind |-> "ns", negativeSampleSize |-> size ]

NewCbow(dimension, window, threadSize) ==
    [ kind |-> "cbow", dimension |-> dimension, window |-> window,
      threadSize |-> threadSize ]

NewSkipGram(dimension, window, threadSize) ==
    [ kind |-> "skip-gram", dimension |-> dimension, window |-> window,
      threadSize |-> threadSize ]

\* word2vec.NewWord2vec reads the vocabulary from its input, which it
\* consumes and closes, and fails when no word is left (vocabOk = FALSE).
NewWord2vec(args, vocabOk) ==
    IF vocabOk
    THEN [ model |-> [ kind |-> "word2vec", mod |-> args.mod.kind,
                       opt |-> args.opt.kind ], err |-> NoError ]
    ELSE [ model |-> Nil, err |-> "Unable to generate Word2vecCorpus" ]

\* The optimizer switch of Build with its default case dropped: an
\* unrecognised name selects negative sampling.
SelectOptimizerNoDefault(b) ==
    IF b.optimizer = "hs"
    THEN NewHierarchicalSoftmax(b.maxDepth)
    ELSE NewNegativeSampling(b.negativeSampleSize)

\* Build, the switch on wb.optimizer; Nil is the default case.
SelectOptimizer(b) ==
    CASE b.optimizer = "hs" -> NewHierarchicalSoftmax(b.maxDepth)
      [] b.optimizer = "ns" -> NewNegativeSampling(b.negativeSampleSize)
      [] OTHER -> Nil

\* Build, the switch on wb.model; Nil is the default case.
SelectModel(b) ==
    CASE b.model = "cbow" -> NewCbow(b.dimension, b.window, b.threadSize)
      [] b.model = "skip-gram" -> NewSkipGram(b.dimension, b.window, b.threadSize)
      [] OTHER -> Nil

\* Build on builder b with the input file in state st: what it returns
\* (ret), what it passes to NewWord2vec (handed, Nil when it does not get
\* there) and how many files it leaves open that nothing owns (leaked).
BuildResult(b, st, vocabOk) ==
    IF ~FileExists(st)
    THEN [ ret |-> [ model |-> Nil, err |-> "Not such a file" ],
           handed |-> Nil, leaked |-> 0 ]
    ELSE IF OpenFails(st)
    THEN [ ret |-> [ model |-> Nil, err |-> "open" ],
           handed |-> Nil, leaked |-> 0 ]
    ELSE LET cnf == NewConfig(b.dimension, b.iteration, b.minCount, b.threadSize,
                              b.window, b.initlr, b.toLower, b.verbose)
             opt == SelectOptimizer(b)
             mod == SelectModel(b)
         IN  IF opt = Nil
             THEN [ ret |-> [ model |-> Nil, err |-> "Invalid optimizer" ],
                    handed |-> Nil, leaked |-> 1 ]
             ELSE IF mod = Nil
             THEN [ ret |-> [ model |-> Nil, err |-> "Invalid model" ],
                    handed |-> Nil, leaked |-> 1 ]
             ELSE LET args == [ kind |-> "args", input |-> b.inputFile, cnf |-> cnf, mod |-> mod,
                                opt |-> opt, batchSize |-> b.batchSize,
                                subsampleThreshold |-> b.subsampleThreshold,
                                theta |-> b.theta ]
                  IN  [ ret |-> NewWord2vec(args, vocabOk),
                        handed |-> args, leaked |-> 0 ]

Build(st, vocabOk) ==
    /\ CanCall
    /\ LET r == BuildResult(wb, st, vocabOk)
       IN  /\ ret' = r.ret
           /\ handed' = r.handed
           /\ openFiles' = openFiles + r.leaked
    /\ calls' = Append(calls, [op |-> "Build", arg |-> st])
    /\ UNCHANGED <<wb, ctor>>
    /\ UNCHANGED <<corpusVars, trainVars>>

\* The builder before any call of it.
BuilderIdle ==
    /\ ctor = NewWord2vecBuilder
    /\ wb = ctor
    /\ calls = <<>>
    /\ ret = [ model |-> Nil, err |-> NoError ]
    /\ handed = Nil
    /\ openFiles = 0

\* No corpus run.
CorpusIdle ==
    /\ cpc = "idle"
    /\ inText = <<>>
    /\ inToLower = FALSE
    /\ inMinCount = 0
    /\ wc = Nil
    /\ wcErr = NoError
    /\ nm = Nil
    /\ heap = <<>>
    /\ hErr = NoError

\* No training run.
TrainIdle ==
    /\ tpc = "idle"
    /\ tcfg = Nil
    /\ wk = <<>>
    /\ processed = 0
    /\ lr = 0
    /\ raced = FALSE
    /\ embedding = Nil

InitBuilder ==
    /\ ctor \in {NewWord2vecBuilder} \cup NewWord2vecBuilderFromViper
    /\ wb = ctor
    /\ calls = <<>>
    /\ ret = [ model |-> Nil, err |-> NoError ]
    /\ handed = Nil
    /\ openFiles = 0
    /\ CorpusIdle
    /\ TrainIdle

NextBuilder ==
    \/ \E f \in FileArgs : InputFile(f)
    \/ \E n \in IntArgs : Dimension(n)
    \/ \E n \in IntArgs : Iteration(n)
    \/ \E n \in IntArgs : MinCount(n)
    \/ \E n \in IntArgs : ThreadSize(n)
    \/ \E n \in IntArgs : Window(n)
    \/ \E x \in FloatArgs : Initlr(x)
    \/ ToLower
    \/ Verbose
    \/ \E m \in ModelArgs : Model(m)
    \/ \E o \in OptimizerArgs : Optimizer(o)
    \/ \E n \in IntArgs : BatchSize(n)
    \/ \E n \in IntArgs : MaxDepth(n)
    \/ \E n \in IntArgs : NegativeSampleSize(n)
    \/ \E x \in FloatArgs : SubSampleThreshold(x)
    \/ \E x \in FloatArgs : Theta(x)
    \/ \E st \in FileStates, vocabOk \in BOOLEAN : Build(st, vocabOk)

SpecBuilder == InitBuilder /\ [][NextBuilder]_vars

(***************************************************************************)
(* Properties of the builder.                                              *)
(***************************************************************************)

\* The setter of each field.
SetterOf ==
    [ inputFile          |-> "InputFile",
      dimension          |-> "Dimension",
      iteration          |-> "Iteration",
      minCount           |-> "MinCount",
      threadSize         |-> "ThreadSize",
      window             |-> "Window",
      initlr             |-> "Initlr",
      toLower            |-> "ToLower",
      verbose            |-> "Verbose",
      model              |-> "Model",
      optimizer          |-> "Optimizer",
      batchSize          |-> "BatchSize",
      maxDepth           |-> "MaxDepth",
      negativeSampleSize |-> "NegativeSampleSize",
      subsampleThreshold |-> "SubSampleThreshold",
      theta              |-> "Theta" ]

MaxOf(S) == CHOOSE x \in S : \A y \in S : y <= x

\* The positions in the call sequence cs of the calls of field f's setter.
CallsTo(cs, f) == { i \in 1..Len(cs) : cs[i].op = SetterOf[f] }

\* Every field holds the argument of the last call of its setter, or what the
\* constructor gave it when its setter was never called.
LastCallWins(b, cs) ==
    \A f \in Fields :
        b[f] = IF CallsTo(cs, f) = {} THEN ctor[f]
               ELSE cs[MaxOf(CallsTo(cs, f))].arg

\* The step is a call (of the operation named by the last entry of calls').
IsCall == Len(calls') = Len(calls) + 1

LastOp == calls'[Len(calls')].op

BuildErrors == {"Not such a file", "open", "Invalid optimizer", "Invalid model"}

\* C1: Build returns a nil model and a non-nil error when the input file is
\* absent or cannot be opened, when the optimizer is not "hs" or "ns", or when
\* the model is not "cbow" or "skip-gram", and then never calls NewWord2vec;
\* in each of the four recognised combinations with an openable input it
\* raises none of these errors and passes the strategies selected by the two
\* names, built from the builder's fields, to NewWord2vec.
C1_BuildErrors ==
    [][ (IsCall /\ LastOp = "Build") =>
          LET st  == calls'[Len(calls')].arg
              bad == \/ st # "readable"
                     \/ wb.optimizer \notin {"hs", "ns"}
                     \/ wb.model \notin {"cbow", "skip-gram"}
          IN  /\ bad => /\ ret'.model = Nil
                        /\ ret'.err \in BuildErrors
                        /\ handed' = Nil
              /\ ~bad => /\ ret'.err \notin BuildErrors
                         /\ handed' # Nil
                         /\ handed'.mod = [ kind |-> wb.model,
                                            dimension |-> wb.dimension,
                                            window |-> wb.window,
                                            threadSize |-> wb.threadSize ]
                         /\ handed'.opt.kind = wb.optimizer
                         /\ wb.optimizer = "hs" =>
                                handed'.opt.maxDepth = wb.maxDepth
                         /\ wb.optimizer = "ns" =>
                                handed'.opt.negativeSampleSize = wb.negativeSampleSize
    ]_vars

\* C1's case: a Build of a skip-gram/hs builder, set up by two setter calls,
\* reached NewWord2vec and returned a model.
C1_Witness ==
    /\ Len(calls) = 3
    /\ calls[1].op = "Model" /\ calls[2].op = "Optimizer" /\ calls[3].op = "Build"
    /\ ret.err = NoError
    /\ ret.model # Nil
    /\ handed # Nil
    /\ handed.mod.kind = "skip-gram"
    /\ handed.opt.kind = "hs"

\* C2: when Build has failed there is no model and no input file opened by
\* Build is left open.
C2_NoPartialState ==
    ret.err # NoError => (ret.model = Nil /\ openFiles = 0)

\* C10: a setter call changes its own field only, ToLower and Verbose never
\* reset their flag, Build changes no field, and after any sequence of calls
\* every field holds the argument of the last call of its setter, or the
\* constructor's value if its setter was never called.
C10_SetterFrame ==
    [][ /\ IsCall
        /\ \A f \in Fields : wb'[f] # wb[f] => LastOp = SetterOf[f]
        /\ wb.toLower => wb'.toLower
        /\ wb.verbose => wb'.verbose
        /\ LastOp = "ToLower" => wb'.toLower
        /\ LastOp = "Verbose" => wb'.verbose
        /\ LastOp = "Build" => wb' = wb
        /\ ctor' = ctor
        /\ LastCallWins(wb', calls')
    ]_vars

\* C10's case: calls of two different setters around a repeated one, the
\* repeated setter's last argument in place, and a flag that started FALSE set.
C10_Witness ==
    /\ Len(calls) = 3
    /\ calls[1].op = "Model" /\ calls[1].arg = "glove"
    /\ calls[2].op = "ToLower"
    /\ calls[3].op = "Model" /\ calls[3].arg = "cbow"
    /\ ~ctor.toLower /\ wb.toLower
    /\ wb.model = "cbow"

(***************************************************************************)
(* corpus.Word2vecCorpus                                                   *)
(*                                                                         *)
(* The embedded core (parse, Size, IDFreq) and node.Nodes.Build belong to  *)
(* other files of the package tree; they are modelled from the design      *)
(* document's Vocabulary Builder and Huffman Tree Builder.                 *)
(***************************************************************************)

\* The dimensions tried for HuffmanTree.
Dimensions == {1, 2}

\* The words a corpus can hold.  "A" differs from "a" by case only.
Words == {"a", "b", "c", "A"}

\* strings.ToLower on Words.
Lower(w) == IF w = "A" THEN "a" ELSE w

\* The text of the test corpus, TestWord2vecCorpus, as the scanner splits it.
text == <<"a", "b", "b", "c", "c", "c", "c">>

Texts == UNION { [1..n -> Words] : n \in 0..MaxLen } \cup {text}

\* The number of occurrences of w in doc.
Count(doc, w) == Cardinality({ i \in DOMAIN doc : doc[i] = w })

\* doc with each element's later occurrences removed.
RECURSIVE Dedup(_)
Dedup(doc) ==
    IF doc = <<>> THEN <<>>
    ELSE LET front == Dedup(SubSeq(doc, 1, Len(doc) - 1))
             last  == doc[Len(doc)]
         IN  IF \E i \in DOMAIN front : front[i] = last
             THEN front
             ELSE Append(front, last)

\* core.parse: one pass counts the (optionally lowercased) words, words below
\* minCount are discarded, the others get sequential ids in the order of
\* their first occurrence; it fails when the read fails or no word is left.
parse(f, toLower, minCount, readOk) ==
    LET doc   == [ i \in DOMAIN f |-> IF toLower THEN Lower(f[i]) ELSE f[i] ]
        kept  == SelectSeq(doc, LAMBDA w : Count(doc, w) >= minCount)
        vocab == Dedup(kept)
    IN  IF ~readOk
        THEN [ core |-> Nil, err |-> "Unable to complete scanning" ]
        ELSE IF vocab = <<>>
        THEN [ core |-> Nil, err |-> "No words in vocabulary" ]
        ELSE [ core |-> [ kind |-> "core",
                          id   |-> [ w \in { vocab[i] : i \in DOMAIN vocab } |->
                                       (CHOOSE i \in DOMAIN vocab : vocab[i] = w) - 1 ],
                          freq |-> [ i \in 0..(Len(vocab) - 1) |->
                                       Count(doc, vocab[i + 1]) ] ],
               err |-> NoError ]

\* core.Size and core.IDFreq.
Size(c) == Cardinality(DOMAIN c.id)

IDFreq(c, i) == c.freq[i]

\* NewWord2vecCorpus with the error of parse dropped: the corpus is returned
\* as it stands.
NewWord2vecCorpusIgnoresError(f, toLower, minCount, readOk) ==
    LET p == parse(f, toLower, minCount, readOk)
    IN  [ corpus |-> IF p.core = Nil
                     THEN [ kind |-> "core", id |-> << >>, freq |-> << >> ]
                     ELSE p.core,
          err |-> NoError ]

\* NewWord2vecCorpus: the corpus when parse succeeds, else nil and the
\* wrapped error.
NewWord2vecCorpus(f, toLower, minCount, readOk) ==
    LET p == parse(f, toLower, minCount, readOk)
    IN  IF p.err # NoError
        THEN [ corpus |-> Nil, err |-> "Unable to generate Word2vecCorpus" ]
        ELSE [ corpus |-> p.core, err |-> NoError ]

\* A node.Node: its Value, and the links Build sets (0: none).
NewNode(value) ==
    [ Value |-> value, parent |-> 0, left |-> 0, right |-> 0, Vector |-> 0 ]

\* HuffmanTree's loop with n.Value set from the loop index.
LeavesValueIsIndex(c) ==
    [ nm |-> [ i \in 0..(Size(c) - 1) |-> i + 1 ],
      ns |-> [ a \in 1..Size(c) |-> NewNode(a - 1) ] ]

\* HuffmanTree's loop with n.Value left at one for every word.
LeavesUnitValue(c) ==
    [ nm |-> [ i \in 0..(Size(c) - 1) |-> i + 1 ],
      ns |-> [ a \in 1..Size(c) |-> NewNode(1) ] ]

\* HuffmanTree's loop: one new node per word id i, its Value the frequency of
\* i, entered in the map under i and appended to ns.  The node of id i is
\* the (i+1)-th allocated: its address is i + 1.
Leaves(c) ==
    [ nm |-> [ i \in 0..(Size(c) - 1) |-> i + 1 ],
      ns |-> [ a \in 1..Size(c) |-> NewNode(IDFreq(c, a - 1)) ] ]

\* The priority collection with node a added: after every node whose weight
\* is not larger, so that nodes of equal weight leave in insertion order.
Insert(queue, h, a) ==
    LET before == SelectSeq(queue, LAMBDA b : h[b].Value <= h[a].Value)
        after  == SelectSeq(queue, LAMBDA b : h[b].Value > h[a].Value)
    IN  before \o <<a>> \o after

RECURSIVE InsertAll(_, _, _)
InsertAll(queue, h, as) ==
    IF as = <<>> THEN queue
    ELSE InsertAll(Insert(queue, h, Head(as)), h, Tail(as))

\* The greedy construction: the two lowest-weight nodes are taken out and
\* merged under a new node whose weight is their sum, which is put back,
\* until one node, the root, is left.  An internal node carries a vector of
\* `dimension` components (Vector is its length).
RECURSIVE Merge(_, _, _)
Merge(h, queue, dimension) ==
    IF Len(queue) <= 1 THEN h
    ELSE LET a  == queue[1]
             b  == queue[2]
             p  == Len(h) + 1
             h1 == Append([h EXCEPT ![a].parent = p, ![b].parent = p],
                          [ Value |-> h[a].Value + h[b].Value, parent |-> 0,
                            left |-> a, right |-> b, Vector |-> dimension ])
         IN  Merge(h1, Insert(SubSeq(queue, 3, Len(queue)), h1, p), dimension)

\* node.Nodes.Build on the nodes ns: the heap with the tree built over them.
NodesBuild(ns, dimension) ==
    Merge(ns, InsertAll(<<>>, ns, [ a \in 1..Len(ns) |-> a ]), dimension)

\* A non-nil map[int]*node.Node holding the entries m.
MapOf(m) == [ kind |-> "map", node |-> m ]

\* HuffmanTree returning the map it filled although Build failed.
HuffmanTreeKeepsMap(c, dimension, buildOk) ==
    LET l == Leaves(c)
    IN  IF ~buildOk
        THEN [ nm |-> MapOf(l.nm), heap |-> l.ns, err |-> "Build" ]
        ELSE [ nm |-> MapOf(l.nm), heap |-> NodesBuild(l.ns, dimension), err |-> NoError ]

\* HuffmanTree: the leaves, then the tree over them; the map when Build
\* succeeds, nil and Build's error when it fails.
HuffmanTree(c, dimension, buildOk) ==
    LET l == Leaves(c)
    IN  IF ~buildOk
        THEN [ nm |-> Nil, heap |-> l.ns, err |-> "Build" ]
        ELSE [ nm |-> MapOf(l.nm), heap |-> NodesBuild(l.ns, dimension), err |-> NoError ]

CallNewWord2vecCorpus(readOk) ==
    /\ cpc = "new"
    /\ LET r == NewWord2vecCorpus(inText, inToLower, inMinCount, readOk)
       IN  /\ wc' = r.corpus
           /\ wcErr' = r.err
           /\ cpc' = IF r.err = NoError THEN "corpus" ELSE "failed"
    /\ UNCHANGED <<inText, inToLower, inMinCount, nm, heap, hErr>>
    /\ UNCHANGED <<builderVars, trainVars>>

CallHuffmanTree(dimension, buildOk) ==
    /\ cpc = "corpus"
    /\ LET r == HuffmanTree(wc, dimension, buildOk)
       IN  /\ nm' = r.nm
           /\ heap' = r.heap
           /\ hErr' = r.err
    /\ cpc' = "tree"
    /\ UNCHANGED <<inText, inToLower, inMinCount, wc, wcErr>>
    /\ UNCHANGED <<builderVars, trainVars>>

InitCorpus ==
    /\ BuilderIdle
    /\ cpc = "new"
    /\ inText \in Texts
    /\ inToLower \in BOOLEAN
    /\ inMinCount \in 0..MaxMinCount
    /\ wc = Nil
    /\ wcErr = NoError
    /\ nm = Nil
    /\ heap = <<>>
    /\ hErr = NoError
    /\ TrainIdle

NextCorpus ==
    \/ \E readOk \in BOOLEAN : CallNewWord2vecCorpus(readOk)
    \/ \E dimension \in Dimensions, buildOk \in BOOLEAN :
          CallHuffmanTree(dimension, buildOk)

SpecCorpus == InitCorpus /\ [][NextCorpus]_vars

(***************************************************************************)
(* Properties of the corpus and of its Huffman tree.                       *)
(***************************************************************************)

\* The input as parse counts it.
InDoc == [ i \in DOMAIN inText |-> IF inToLower THEN Lower(inText[i]) ELSE inText[i] ]

Ids == 0..(Size(wc) - 1)

RECURSIVE SumFreq(_, _)
SumFreq(c, n) == IF n = 0 THEN 0 ELSE IDFreq(c, n - 1) + SumFreq(c, n - 1)

TreeBuilt == cpc = "tree" /\ hErr = NoError

\* The number of edges from node a up to a node without parent, following at
\* most fuel parent links; -1 when no such node is met.
RECURSIVE CodeLen(_, _)
CodeLen(a, fuel) ==
    IF heap[a].parent = 0 THEN 0
    ELSE IF fuel = 0 THEN -1
    ELSE LET up == CodeLen(heap[a].parent, fuel - 1)
         IN  IF up < 0 THEN -1 ELSE up + 1

\* The nodes in the priority collection when node p is created.
AliveAt(p) ==
    { x \in 1..(p - 1) : heap[x].parent = 0 \/ heap[x].parent >= p }

\* C4: the tree over a vocabulary of n >= 1 words has n leaves and n - 1
\* internal nodes, every internal node has exactly two children and their
\* weights' sum as its weight, there is one root, its weight is the sum of
\* the words' frequencies, and every leaf reaches it by parent links.
C4_HuffmanShape ==
    TreeBuilt =>
        LET n == Size(wc)
            leaves == 1..n
            internal == (n + 1)..Len(heap)
            roots == { a \in DOMAIN heap : heap[a].parent = 0 }
        IN  /\ n >= 1
            /\ Len(heap) = 2 * n - 1
            /\ \A a \in leaves : heap[a].left = 0 /\ heap[a].right = 0
            /\ \A a \in internal :
                 /\ heap[a].left \in DOMAIN heap
                 /\ heap[a].right \in DOMAIN heap
                 /\ heap[a].left # heap[a].right
                 /\ heap[heap[a].left].parent = a
                 /\ heap[heap[a].right].parent = a
                 /\ heap[a].Value = heap[heap[a].left].Value + heap[heap[a].right].Value
                 /\ heap[a].Vector \in Dimensions
            /\ \A a \in DOMAIN heap :
                 heap[a].parent # 0 =>
                    /\ heap[a].parent \in internal
                    /\ a \in { heap[heap[a].parent].left, heap[heap[a].parent].right }
            /\ Cardinality(roots) = 1
            /\ \A r \in roots : heap[r].Value = SumFreq(wc, n)
            /\ \A a \in leaves : CodeLen(a, Len(heap)) >= 0

\* C4's case: a tree over three words of unequal frequencies.
C4_Witness ==
    /\ TreeBuilt
    /\ Size(wc) = 3
    /\ \E i, j \in Ids : IDFreq(wc, i) > IDFreq(wc, j)
    /\ \E a, b \in 1..3 : CodeLen(a, Len(heap)) # CodeLen(b, Len(heap))

\* C5: every internal node merges the two lowest-weight nodes of the
\* collection at the time, a word of strictly higher frequency has a code no
\* longer than a word of lower frequency, and on the test corpus
\* ("a b b c c c c", minCount 0) the frequencies are a:1, b:2, c:4, a and b
\* are merged into a node of weight 3, that node and c into the root of
\* weight 7, c has a 1-bit code and a and b have 2-bit codes.
C5_HuffmanCodes ==
    TreeBuilt =>
        /\ \A p \in (Size(wc) + 1)..Len(heap) :
             \A x \in AliveAt(p) \ { heap[p].left, heap[p].right } :
                /\ heap[x].Value >= heap[heap[p].left].Value
                /\ heap[x].Value >= heap[heap[p].right].Value
        /\ \A u, v \in Ids :
             IDFreq(wc, u) > IDFreq(wc, v) =>
                CodeLen(nm.node[u], Len(heap)) <= CodeLen(nm.node[v], Len(heap))
        /\ (inText = text /\ inMinCount = 0) =>
             /\ DOMAIN wc.id = {"a", "b", "c"}
             /\ IDFreq(wc, wc.id["a"]) = 1
             /\ IDFreq(wc, wc.id["b"]) = 2
             /\ IDFreq(wc, wc.id["c"]) = 4
             /\ Len(heap) = 5
             /\ {heap[4].left, heap[4].right} = {nm.node[wc.id["a"]], nm.node[wc.id["b"]]}
             /\ heap[4].Value = 3
             /\ {heap[5].left, heap[5].right} = {4, nm.node[wc.id["c"]]}
             /\ heap[5].Value = 7
             /\ heap[5].parent = 0
             /\ CodeLen(nm.node[wc.id["c"]], 5) = 1
             /\ CodeLen(nm.node[wc.id["a"]], 5) = 2
             /\ CodeLen(nm.node[wc.id["b"]], 5) = 2

\* C5's case: the tree of the test corpus as testing.go builds it.
C5_Witness ==
    /\ TreeBuilt
    /\ inText = text
    /\ inToLower
    /\ inMinCount = 0

\* C6: the ids of a corpus are 0..Size-1, one per word; the map HuffmanTree
\* returns has exactly these keys, each on its own leaf whose Value is the
\* frequency of the key; when Build fails the map is nil and the error is
\* returned.
C6_IdsAndMap ==
    /\ cpc \in {"corpus", "tree"} =>
         /\ { wc.id[w] : w \in DOMAIN wc.id } = Ids
         /\ \A v, w \in DOMAIN wc.id : wc.id[v] = wc.id[w] => v = w
         /\ DOMAIN wc.freq = Ids
    /\ TreeBuilt =>
         /\ nm # Nil
         /\ DOMAIN nm.node = Ids
         /\ \A i, j \in Ids : nm.node[i] = nm.node[j] => i = j
         /\ \A i \in Ids :
              /\ nm.node[i] \in DOMAIN heap
              /\ heap[nm.node[i]].left = 0 /\ heap[nm.node[i]].right = 0
              /\ heap[nm.node[i]].Value = IDFreq(wc, i)
    /\ (cpc = "tree" /\ hErr # NoError) => nm = Nil

\* C6's case: a map over the two words left by the minimum count.
C6_Witness ==
    /\ TreeBuilt
    /\ inMinCount = 2
    /\ Size(wc) = 2
    /\ Cardinality({ InDoc[i] : i \in DOMAIN InDoc }) = 3
    /\ IDFreq(wc, 0) # IDFreq(wc, 1)

\* No word of the input occurs minCount times.
NoneQualifies == \A i \in DOMAIN InDoc : Count(InDoc, InDoc[i]) < inMinCount

\* C7: NewWord2vecCorpus returns a corpus and no error, or no corpus and an
\* error; no corpus when no word of the input meets minCount; and in a
\* corpus only words that occur in the input at least minCount times have
\* ids.
C7_CorpusOrError ==
    cpc # "new" =>
        /\ (wc = Nil) <=> (wcErr # NoError)
        /\ (cpc = "failed") <=> (wcErr # NoError)
        /\ NoneQualifies => wc = Nil
        /\ wc # Nil =>
             /\ DOMAIN wc.id # {}
             /\ \A w \in DOMAIN wc.id :
                  /\ Count(InDoc, w) >= 1
                  /\ Count(InDoc, w) >= inMinCount

\* C7's case: a corpus of three different words refused under minCount 2.
C7_Witness ==
    /\ cpc = "failed"
    /\ Len(inText) = 3
    /\ inMinCount = 2
    /\ NoneQualifies
    /\ wc = Nil
    /\ wcErr # NoError

(***************************************************************************)
(* The word2vec trainer behind Build's model: train, its workers, the      *)
(* shared counter and the learning rate.  The builder only passes it       *)
(* threadSize, iteration, batchSize and theta; the trainer itself is       *)
(* modelled from the design document's Trainer/Scheduler and concurrency   *)
(* sections.  An example is one position of the corpus in one epoch.       *)
(***************************************************************************)

\* The batch sizes tried.
BatchSizes == {1, 2}

Workers == 1..tcfg.threadSize

\* The examples of the whole run.
TotalExamples == tcfg.docSize * tcfg.iteration

\* The corpus split into threadSize roughly equal consecutive partitions:
\* worker w trains positions lo .. hi - 1.
Partition(w) ==
    [ lo |-> ((w - 1) * tcfg.docSize) \div tcfg.threadSize,
      hi |-> (w * tcfg.docSize) \div tcfg.threadSize ]

\* The learning rate is kept as a whole number of units of initlr / LrUnit.
LrUnit == TotalExamples * ThetaDen

MaxInt(a, b) == IF a >= b THEN a ELSE b

\* The decay without its floor.
LearningRateNoFloor(p) == (TotalExamples - p) * ThetaDen

\* lr = max(initlr * (1 - processed / totalExamples), initlr * theta).
LearningRate(p) ==
    MaxInt((TotalExamples - p) * ThetaDen, tcfg.theta * TotalExamples)

\* An increment that is lost when it overlaps another worker's update.
RacyAdd(counter, w) ==
    IF \E v \in Workers \ {w} : wk[v].pc = "store" THEN counter ELSE counter + 1

\* The atomic increment of the shared counter by worker w.
AtomicAdd(counter, w) == counter + 1

\* The examples worker w has completed.
Completed(w) ==
    wk[w].epoch * (Partition(w).hi - Partition(w).lo) + (wk[w].pos - Partition(w).lo)

\* The join released as soon as one worker is done.
AnyWorkerDone == \E w \in Workers : wk[w].pc = "done"

\* The final join: every worker is done.
AllWorkersDone == \A w \in Workers : wk[w].pc = "done"

\* train launches the workers, each at the start of its partition.
Train ==
    /\ tpc = "ready"
    /\ tpc' = "training"
    /\ wk' = [ w \in Workers |->
                 [ pc |-> "load", epoch |-> 0, pos |-> Partition(w).lo ] ]
    /\ UNCHANGED <<tcfg, processed, lr, raced, embedding>>
    /\ UNCHANGED <<builderVars, corpusVars>>

\* A worker starts the update of its next example on the shared weight
\* matrices: no lock is taken, other workers may be in theirs.
WorkerLoad(w) ==
    /\ tpc = "training"
    /\ wk[w].pc = "load"
    /\ wk[w].pos < Partition(w).hi
    /\ wk' = [wk EXCEPT ![w].pc = "store"]
    /\ raced' = (raced \/ \E v \in Workers \ {w} : wk[v].pc = "store")
    /\ UNCHANGED <<tpc, tcfg, processed, lr, embedding>>
    /\ UNCHANGED <<builderVars, corpusVars>>

\* The worker ends the update and counts the example; every batchSize
\* examples the learning rate is recomputed from the counter.
WorkerStore(w) ==
    /\ tpc = "training"
    /\ wk[w].pc = "store"
    /\ processed' = AtomicAdd(processed, w)
    /\ lr' = IF processed' % tcfg.batchSize = 0 THEN LearningRate(processed') ELSE lr
    /\ wk' = [wk EXCEPT ![w].pc = "load", ![w].pos = @ + 1]
    /\ UNCHANGED <<tpc, tcfg, raced, embedding>>
    /\ UNCHANGED <<builderVars, corpusVars>>

\* The worker reached the end of its partition: the next epoch, or done.
WorkerEpochEnd(w) ==
    /\ tpc = "training"
    /\ wk[w].pc = "load"
    /\ wk[w].pos = Partition(w).hi
    /\ wk' = IF wk[w].epoch + 1 = tcfg.iteration
             THEN [wk EXCEPT ![w].epoch = @ + 1, ![w].pos = Partition(w).lo,
                             ![w].pc = "done"]
             ELSE [wk EXCEPT ![w].epoch = @ + 1, ![w].pos = Partition(w).lo]
    /\ UNCHANGED <<tpc, tcfg, processed, lr, raced, embedding>>
    /\ UNCHANGED <<builderVars, corpusVars>>

\* The join: train returns the input-vector matrix.
Join ==
    /\ tpc = "training"
    /\ AllWorkersDone
    /\ tpc' = "returned"
    /\ embedding' = [ kind |-> "embedding", examples |-> processed ]
    /\ UNCHANGED <<tcfg, wk, processed, lr, raced>>
    /\ UNCHANGED <<builderVars, corpusVars>>

InitTrain ==
    /\ BuilderIdle
    /\ CorpusIdle
    /\ tpc = "ready"
    /\ tcfg \in [ threadSize : 1..MaxThreads, iteration : 1..MaxIteration,
                  batchSize : BatchSizes, docSize : 1..MaxDoc,
                  theta : 0..ThetaDen ]
    /\ wk = <<>>
    /\ processed = 0
    /\ lr = LrUnit
    /\ raced = FALSE
    /\ embedding = Nil

NextTrain ==
    \/ Train
    \/ \E w \in Workers : WorkerLoad(w)
    \/ \E w \in Workers : WorkerStore(w)
    \/ \E w \in Workers : WorkerEpochEnd(w)
    \/ Join

SpecTrain == InitTrain /\ [][NextTrain]_vars

\* The workers are goroutines that run to completion and the join is a wait
\* for them: each step that stays possible is eventually taken.
SpecTrainFair ==
    /\ SpecTrain
    /\ WF_vars(Train)
    /\ \A w \in 1..MaxThreads :
         WF_vars(/\ w \in Workers
                 /\ (WorkerLoad(w) \/ WorkerStore(w) \/ WorkerEpochEnd(w)))
    /\ WF_vars(Join)

(***************************************************************************)
(* Properties of the trainer.                                              *)
(***************************************************************************)

RECURSIVE SumCompleted(_)
SumCompleted(n) == IF n = 0 THEN 0 ELSE Completed(n) + SumCompleted(n - 1)

C8_TrainJoins ==
    /\ [](tpc = "returned" =>
            /\ embedding # Nil
            /\ \A w \in Workers :
                 /\ wk[w].pc = "done"
                 /\ wk[w].epoch = tcfg.iteration
                 /\ Completed(w) =
                      tcfg.iteration * (Partition(w).hi - Partition(w).lo))
    /\ [](tpc # "idle" =>
            /\ \A v, w \in Workers :
                 v # w => (Partition(v).lo..(Partition(v).hi - 1))
                             \cap (Partition(w).lo..(Partition(w).hi - 1)) = {}
            /\ UNION { Partition(w).lo..(Partition(w).hi - 1) : w \in Workers }
                 = 0..(tcfg.docSize - 1))
    /\ [](tpc # "returned" => embedding = Nil)
    /\ <>(tpc = "returned")

\* C8's case: train returned after two workers ran two epochs each over
\* non-empty partitions.
C8_Witness ==
    /\ tpc = "returned"
    /\ tcfg.threadSize = 2
    /\ tcfg.iteration = 2
    /\ \A w \in Workers : Partition(w).hi > Partition(w).lo

\* C9: the counter never decreases, it always equals the number of examples
\* the workers have completed, and once train has returned it equals the
\* number of examples of the run.
C9_AtomicCounter ==
    /\ [](tpc \in {"training", "returned"} =>
            processed = SumCompleted(tcfg.threadSize))
    /\ [](tpc = "returned" => processed = TotalExamples)
    /\ [][processed' >= processed]_vars

\* C9's case: a run in which two workers updated the weight matrices at the
\* same time and every example was counted.
C9_Witness ==
    /\ tpc = "returned"
    /\ tcfg.threadSize = 2
    /\ tcfg.iteration = 2
    /\ raced
    /\ processed = TotalExamples

====
